---- MODULE Spec2Model ----
(***************************************************************************)
(* A model of the iex runtime protocol (src/src/lib.rs): the thread-local  *)
(* exception slot, capability tokens (Marker), the forwarding bridge       *)
(* (_iex_forward) and the scope guard (ExceptionMapper).                   *)
(*                                                                         *)
(* Each thread runs a call tree.  A frame of the tree is one evaluation of *)
(* an Outcome under a token: a top-level boundary (into_result), a         *)
(* converting forward (an armed ExceptionMapper), a fast-path forward or   *)
(* a direct, conversion-less forward.  A failure writes the slot and       *)
(* unwinds the frames one at a time, innermost first.                      *)
(***************************************************************************)
EXTENDS Integers, Sequences, FiniteSets, TLC

VARIABLES
    slot,       \* EXCEPTION: one Exception per thread
    stack,      \* per thread: the frames of the call tree, innermost last
    mode,       \* per thread: idle | running | unwinding | foreign | converting | aborted
    flight,     \* per thread: history of the failure in flight
    ev,         \* per thread: the last step the thread took, and what it yielded
    wroteFull,  \* some write found its slot non-empty
    started,    \* the threads the program runs
    types,      \* the error types the program uses
    expansion   \* the #[iex] function being expanded, and a call of its accessor

vars == <<slot, stack, mode, flight, ev, wroteFull, started, types, expansion>>

----------------------------------------------------------------------------
(* Bounds of the model *)

\* Frames of a call tree when one thread runs.  When two threads run, the
\* trees are shallower (see DepthOf), to keep their product small.
MaxDepth == 4

Threads == {"t1", "t2"}

\* Static error types.  "Ap" is "A" with another lifetime: the same runtime
\* type identity, a different static type.
Types == {"A", "Ap", "B"}

\* Three error types of three runtime identities, for a chain of two
\* conversions
ChainTypes == {"A", "B", "C"}

\* Error types of one runtime identity
SameTypes == {"A", "Ap"}

\* Expressions nested in one another in the body of an #[iex] function
MaxNest == 3

\* Error payloads signalled, and outputs returned
ErrVals == {0, 1}
OutVals == {0, 1}

----------------------------------------------------------------------------
(* Types, values, the slot *)

\* typeid::of::<T>(): lifetimes are erased
TypeId(T) == IF T = "Ap" THEN "A" ELSE T

TypeIdx(T) == IF TypeId(T) = "A" THEN 1 ELSE IF TypeId(T) = "B" THEN 2 ELSE 3

\* An Into that converts between two static types of one runtime identity
IntoStatic(R, E, v) == IF R = E THEN v ELSE 3 * v + TypeIdx(E)
\* Into::<E>::into(err) for err : R.  Between types of one runtime identity it
\* is the blanket identity; otherwise the result records the target type.
IntoVal(R, E, v) == IF TypeId(R) = TypeId(E) THEN v ELSE 3 * v + TypeIdx(E)

\* Exception::new()
Empty == [tag |-> "none", val |-> 0]

\* Exception::read::<T>(): consumes the slot only when the tag matches
SlotRead(s, T) ==
    IF s.tag = TypeId(T)
    THEN [got |-> TRUE, val |-> s.val, slot |-> Empty]
    ELSE [got |-> FALSE, val |-> 0, slot |-> s]

\* Exception::write::<T>(value)
SlotWrite(s, T, v) == [tag |-> TypeId(T), val |-> v]

\* A plain static in place of thread_local!: every thread resolves to one slot
SlotShared(t) == "t1"
\* thread_local!: the slot a thread resolves EXCEPTION to
SlotOf(t) == t

----------------------------------------------------------------------------
(* Frames *)

NoFlight == [ty |-> "none", val |-> 0, depth |-> 0, crossed |-> <<>>, convs |-> 0]

\* A frame: tok is the type of the token its callee runs under, out the error
\* type of the scope that made it, from the error type the frame claims (a
\* boundary) or converts (a guard).
Frame(k, tok, out) ==
    [kind |-> k, tok |-> tok, from |-> tok, out |-> out,
     phase |-> "live", held |-> 0, saved |-> NoFlight,
     calls |-> 0, sRel |-> 0, fRel |-> 0, forgotten |-> FALSE]

Top(t) == stack[t][Len(stack[t])]
Pop(t) == SubSeq(stack[t], 1, Len(stack[t]) - 1)

\* What a thread does once the frames of stk are what is left
ModeUnder(stk) ==
    IF stk = <<>> THEN "idle"
    ELSE IF stk[Len(stk)].phase = "converting" THEN "converting"
    ELSE "running"

Aborted == \E t \in Threads : mode[t] = "aborted"

\* Thread t may take a step: it runs, and the process has not aborted
Runs(t) == t \in started /\ ~Aborted

DepthOf(t) ==
    IF types = ChainTypes THEN MaxDepth - 1
    ELSE IF started # Threads THEN MaxDepth
    ELSE IF t = "t1" THEN MaxDepth - 2
    ELSE MaxDepth \div 2

\* The record of a step: op names it; ty, out and val are the types and the
\* value it handled; calls, sRel and fRel are, for a step that destroys a
\* guard, how often the guard called its conversion, released its state and
\* released its function, and paths is how many of swallow and Drop it went
\* through.
Ev(op) ==
    [op |-> op, ty |-> "none", out |-> "none", val |-> 0,
     calls |-> 0, sRel |-> 0, fRel |-> 0, paths |-> 0]

EvVal(op, ty, v) == [Ev(op) EXCEPT !.ty = ty, !.val = v]

EvGuard(op, g, v) ==
    [op |-> op, ty |-> g.from, out |-> g.out, val |-> v,
     calls |-> g.calls, sRel |-> g.sRel, fRel |-> g.fRel,
     paths |-> IF g.phase = "swallowed" /\ ~g.forgotten THEN 2 ELSE 1]

----------------------------------------------------------------------------
(* ExceptionMapper *)

\* ExceptionMapper::new(marker: Marker<U>, state, f): armed, owning state and f
MapperNew(U, T) == Frame("guard", T, U)

\* A get_in_marker that hands out the marker of the outer type U
GetOutMarker(g) == g.out
\* ExceptionMapper::get_in_marker(): a Marker<T>
GetInMarker(g) == g.from

\* A swallow that drops state and forgets self without dropping f
SwallowLeakF(g) ==
    [g EXCEPT !.sRel = @ + 1, !.phase = "swallowed", !.forgotten = TRUE]
\* A swallow without mem::forget(self): Drop runs as swallow returns
SwallowNoForget(g) ==
    [g EXCEPT !.sRel = @ + 1, !.fRel = @ + 1, !.phase = "swallowed"]
\* ExceptionMapper::swallow(): drop state, drop f, forget self (no Drop runs)
Swallow(g) ==
    [g EXCEPT !.sRel = @ + 1, !.fRel = @ + 1, !.phase = "swallowed",
              !.forgotten = TRUE]

\* A Drop that takes whatever the slot holds, and fires on an empty slot too
DropReadAny(s, T) == [got |-> TRUE, val |-> s.val, slot |-> Empty]
\* A Drop that looks at the payload and leaves it in the slot across the call of f
DropPeek(s, T) == [SlotRead(s, T) EXCEPT !.slot = s]
\* Drop: (*exception).read::<T>(), which takes the payload out of the slot
DropRead(s, T) == SlotRead(s, T)

\* Drop, the branch taken when read::<T>() returned Some(error): state and f
\* are moved out of the guard and f is called with them
DropTake(g, error, fl) ==
    [g EXCEPT !.sRel = @ + 1, !.fRel = @ + 1, !.calls = @ + 1,
              !.phase = "converting", !.held = error,
              !.saved = [fl EXCEPT !.convs = @ + 1]]

\* Drop, the branch taken when read::<T>() returned None: nothing is done
DropSkip(g) == [g EXCEPT !.phase = "skipped"]

\* A closure that passes the error on unconverted
ConvertNone(g) == g.held
\* The closure _iex_forward gives its guard: |_, err| Into::<E>::into(err)
Convert(g) == IntoVal(g.from, g.out, g.held)

\* A Drop that writes the converted value back under the type it read
WriteTypeIn(g) == g.from
\* The type Drop writes the converted value under: write::<U>
WriteType(g) == g.out

----------------------------------------------------------------------------
(* Actions.  Each is a step of thread t. *)

\* Outcome::into_result (the top-level boundary) is entered with a token for E
IntoResult(t, E) ==
    /\ Runs(t)
    /\ mode[t] \in {"idle", "running", "converting"}
    /\ Len(stack[t]) < DepthOf(t)
    /\ stack' = [stack EXCEPT ![t] = Append(@, Frame("boundary", E, E))]
    /\ mode' = [mode EXCEPT ![t] = "running"]
    /\ flight' = [flight EXCEPT ![t] = NoFlight]
    /\ ev' = [ev EXCEPT ![t] = Ev("enter")]
    /\ UNCHANGED <<slot, wroteFull, started, types, expansion>>

\* An _iex_forward without the typeid test, always through a guard
ForwardGuarded(E, R) ==
    LET exception_mapper == MapperNew(E, R)
    IN  [exception_mapper EXCEPT !.tok = GetInMarker(exception_mapper)]
\* An _iex_forward without the typeid test, never through a guard
ForwardUnguarded(E, R) == Frame("fast", R, E)
\* The frame _iex_forward (the &mut impl) sets up for an inner Outcome whose error
\* type is R, in a scope whose token is for E
ForwardFrame(E, R) ==
    IF TypeId(E) = TypeId(R)
    THEN Frame("fast", R, E)
    ELSE LET exception_mapper == MapperNew(E, R)
         IN  [exception_mapper EXCEPT !.tok = GetInMarker(exception_mapper)]

\* <&mut (Marker<E>, ManuallyDrop<R>)>::_iex_forward, up to the call of
\* get_value_or_panic
IexForward(t, R) ==
    /\ Runs(t)
    /\ mode[t] = "running"
    /\ stack[t] # <<>>
    /\ Len(stack[t]) < DepthOf(t)
    /\ stack' = [stack EXCEPT ![t] = Append(@, ForwardFrame(Top(t).tok, R))]
    /\ flight' = [flight EXCEPT ![t] = NoFlight]
    /\ ev' = [ev EXCEPT ![t] = Ev("forward")]
    /\ UNCHANGED <<slot, mode, wroteFull, started, types, expansion>>

\* The general path of _iex_forward taken for an inner Outcome whose error type
\* R has the runtime identity of the scope's: a guard whose conversion is the
\* blanket identity Into
ForwardIdentityGuard(t, R) ==
    /\ Runs(t)
    /\ mode[t] = "running"
    /\ stack[t] # <<>>
    /\ Len(stack[t]) < DepthOf(t)
    /\ TypeId(Top(t).tok) = TypeId(R)
    /\ LET exception_mapper == MapperNew(Top(t).tok, R)
       IN  stack' = [stack EXCEPT ![t] =
               Append(@, [exception_mapper EXCEPT !.tok = GetInMarker(exception_mapper)])]
    /\ flight' = [flight EXCEPT ![t] = NoFlight]
    /\ ev' = [ev EXCEPT ![t] = Ev("forward")]
    /\ UNCHANGED <<slot, mode, wroteFull, started, types, expansion>>

\* <(Marker<R::Error>, ManuallyDrop<R>)>::_iex_forward: the token is passed on
ForwardDirect(t) ==
    /\ Runs(t)
    /\ mode[t] = "running"
    /\ stack[t] # <<>>
    /\ Len(stack[t]) < DepthOf(t)
    /\ stack' = [stack EXCEPT ![t] = Append(@, Frame("direct", Top(t).tok, Top(t).tok))]
    /\ flight' = [flight EXCEPT ![t] = NoFlight]
    /\ ev' = [ev EXCEPT ![t] = Ev("direct")]
    /\ UNCHANGED <<slot, mode, wroteFull, started, types, expansion>>

\* get_value_or_panic on a success: the value v comes back by the ordinary
\* return path.  Through a guard, _iex_forward swallows the guard first; a
\* guard that swallow did not forget has its Drop run, which reads the slot.
ReturnValue(t, v) ==
    /\ Runs(t)
    /\ mode[t] = "running"
    /\ stack[t] # <<>>
    /\ slot' = IF Top(t).kind = "guard" /\ ~Swallow(Top(t)).forgotten
               THEN [slot EXCEPT ![SlotOf(t)] = DropRead(@, Top(t).from).slot]
               ELSE slot
    /\ stack' = [stack EXCEPT ![t] = Pop(t)]
    /\ mode' = [mode EXCEPT ![t] = ModeUnder(Pop(t))]
    /\ flight' = [flight EXCEPT ![t] = NoFlight]
    /\ ev' = [ev EXCEPT ![t] =
            CASE Top(t).kind = "guard" -> EvGuard("swallow", Swallow(Top(t)), v)
              [] Top(t).kind = "boundary" -> EvVal("ok", Top(t).tok, v)
              [] OTHER -> EvVal("return", Top(t).tok, v)]
    /\ UNCHANGED <<wroteFull, started, types, expansion>>

\* get_value_or_panic on a failure: the error e is written to the slot under
\* the token's type and the unwind starts
Signal(t, e) ==
    /\ Runs(t)
    /\ mode[t] = "running"
    /\ stack[t] # <<>>
    /\ slot' = [slot EXCEPT ![SlotOf(t)] = SlotWrite(@, Top(t).tok, e)]
    /\ wroteFull' = (wroteFull \/ slot[SlotOf(t)] # Empty)
    /\ mode' = [mode EXCEPT ![t] = "unwinding"]
    /\ flight' = [flight EXCEPT ![t] =
            [ty |-> Top(t).tok, val |-> e, depth |-> Len(stack[t]),
             crossed |-> <<>>, convs |-> 0]]
    /\ ev' = [ev EXCEPT ![t] = EvVal("signal", Top(t).tok, e)]
    /\ UNCHANGED <<stack, started, types, expansion>>

\* A fault that is not of this protocol (a genuine panic) starts an unwind
Panic(t) ==
    /\ Runs(t)
    /\ mode[t] = "running"
    /\ stack[t] # <<>>
    /\ mode' = [mode EXCEPT ![t] = "foreign"]
    /\ flight' = [flight EXCEPT ![t] = NoFlight]
    /\ ev' = [ev EXCEPT ![t] = Ev("panic")]
    /\ UNCHANGED <<slot, stack, wroteFull, started, types, expansion>>

\* An unwind leaves a frame that holds no guard
Unwind(t) ==
    /\ Runs(t)
    /\ mode[t] \in {"unwinding", "foreign"}
    /\ stack[t] # <<>>
    /\ Top(t).kind \in {"fast", "direct"}
    /\ stack' = [stack EXCEPT ![t] = Pop(t)]
    /\ ev' = [ev EXCEPT ![t] = Ev("unwind")]
    /\ UNCHANGED <<slot, mode, flight, wroteFull, started, types, expansion>>

\* Drop for ExceptionMapper, up to the call of f: the slot is read for T
DropGuard(t) ==
    /\ Runs(t)
    /\ mode[t] \in {"unwinding", "foreign"}
    /\ stack[t] # <<>>
    /\ Top(t).kind = "guard"
    /\ Top(t).phase = "live"
    /\ LET r == DropRead(slot[SlotOf(t)], Top(t).from)
       IN  IF r.got
           THEN /\ slot' = [slot EXCEPT ![SlotOf(t)] = r.slot]
                /\ stack' = [stack EXCEPT ![t][Len(stack[t])] =
                                DropTake(@, r.val, flight[t])]
                /\ mode' = [mode EXCEPT ![t] = "converting"]
                /\ flight' = [flight EXCEPT ![t] = NoFlight]
                /\ ev' = [ev EXCEPT ![t] = EvVal("fire", Top(t).from, r.val)]
           ELSE /\ stack' = [stack EXCEPT ![t] = Pop(t)]
                /\ ev' = [ev EXCEPT ![t] = EvGuard("skip", DropSkip(Top(t)), 0)]
                /\ UNCHANGED <<slot, mode, flight>>
    /\ UNCHANGED <<wroteFull, started, types, expansion>>

\* Drop for ExceptionMapper, from the return of f: write::<U>(f(state, error)),
\* and the unwind goes on
ConvReturn(t) ==
    /\ Runs(t)
    /\ mode[t] = "converting"
    /\ Top(t).kind = "guard"
    /\ Top(t).phase = "converting"
    /\ slot' = [slot EXCEPT ![SlotOf(t)] = SlotWrite(@, WriteType(Top(t)), Convert(Top(t)))]
    /\ wroteFull' = (wroteFull \/ slot[SlotOf(t)] # Empty)
    /\ stack' = [stack EXCEPT ![t] = Pop(t)]
    /\ mode' = [mode EXCEPT ![t] = "unwinding"]
    /\ flight' = [flight EXCEPT ![t] =
            [Top(t).saved EXCEPT !.crossed = Append(@, <<Top(t).from, Top(t).out>>)]]
    /\ ev' = [ev EXCEPT ![t] = EvGuard("converted", Top(t), Convert(Top(t)))]
    /\ UNCHANGED <<started, types, expansion>>

\* A fault in a conversion that goes on as one more unwind
FaultUnwinds == "foreign"
\* What a fault in a destructor that runs during an unwind leads to
FaultMode == "aborted"

\* The conversion itself faults while its guard fires during an unwind: a
\* panic out of a destructor during cleanup aborts the process
ConvFault(t) ==
    /\ Runs(t)
    /\ mode[t] = "converting"
    /\ mode' = [mode EXCEPT ![t] = FaultMode]
    /\ ev' = [ev EXCEPT ![t] = Ev("abort")]
    /\ UNCHANGED <<slot, stack, flight, wroteFull, started, types, expansion>>

\* The boundary catches the unwind and reads the slot for its error type
Catch(t) ==
    /\ Runs(t)
    /\ mode[t] = "unwinding"
    /\ stack[t] # <<>>
    /\ Top(t).kind = "boundary"
    /\ LET r == SlotRead(slot[SlotOf(t)], Top(t).from)
       IN  IF r.got
           THEN /\ slot' = [slot EXCEPT ![SlotOf(t)] = r.slot]
                /\ stack' = [stack EXCEPT ![t] = Pop(t)]
                /\ mode' = [mode EXCEPT ![t] = ModeUnder(Pop(t))]
                /\ ev' = [ev EXCEPT ![t] = EvVal("catch", Top(t).from, r.val)]
           ELSE /\ mode' = [mode EXCEPT ![t] = "aborted"]
                /\ ev' = [ev EXCEPT ![t] = Ev("abort")]
                /\ UNCHANGED <<slot, stack>>
    /\ UNCHANGED <<flight, wroteFull, started, types, expansion>>

\* The boundary lets a foreign unwind through
PassForeign(t) ==
    /\ Runs(t)
    /\ mode[t] = "foreign"
    /\ stack[t] # <<>>
    /\ Top(t).kind = "boundary"
    /\ stack' = [stack EXCEPT ![t] = Pop(t)]
    /\ mode' = [mode EXCEPT ![t] =
            CASE Pop(t) = <<>> -> "idle"
              [] ModeUnder(Pop(t)) = "converting" -> "aborted"
              [] OTHER -> "foreign"]
    /\ ev' = [ev EXCEPT ![t] = Ev("pass")]
    /\ UNCHANGED <<slot, flight, wroteFull, started, types, expansion>>

----------------------------------------------------------------------------
(* The #[iex] attribute (src/iex-derive/src/lib.rs) *)

\* The kinds of expression of a function body that matter to the rewriting:
\* expr?, a closure, a block that holds a nested fn item, and any other
\* expression with an operand
SrcKinds == {"try", "closure", "fnitem", "paren"}

\* An expression is the sequence of the kinds of its nested operands,
\* outermost first; its innermost operand is a path
Exprs == UNION {[1..n -> SrcKinds] : n \in 0..MaxNest}

Node(k) == [k |-> k, f |-> "none", marker |-> "none"]

RECURSIVE Parse(_)
Parse(e) == IF e = <<>> THEN <<>> ELSE <<Node(Head(e))>> \o Parse(Tail(e))

\* A rewriting of expr? into the forwarding bridge
ForwardCall == [k |-> "call", f |-> "_iex_forward", marker |-> "_unsafe_iex_marker"]
\* parse_quote!(::iex::Outcome::get_value_or_panic(#expr, _unsafe_iex_marker))
TryCall == [k |-> "call", f |-> "get_value_or_panic", marker |-> "_unsafe_iex_marker"]

RECURSIVE VisitExprMut(_)
\* ReplaceTry::visit_expr_mut: a Try node is replaced, then the node's
\* operands are visited; visit_item_fn_mut and visit_expr_closure_mut do not
\* descend
VisitExprMut(e) ==
    IF e = <<>> THEN <<>>
    ELSE LET node == IF Head(e).k = "try" THEN TryCall ELSE Head(e)
         IN  IF node.k \in {"closure", "fnitem"}
             THEN e
             ELSE <<node>> \o VisitExprMut(Tail(e))

\* A wrapper that returns what the body returned, as it is
WrapperBare(name) ==
    [param |-> "_unsafe_iex_marker", outer |-> "none", outerArg |-> "none",
     inner |-> name, innerArg |-> "_unsafe_iex_marker"]
\* The wrapper's closure: move |_unsafe_iex_marker| {
\*     ::iex::Outcome::get_value_or_panic(#name(_unsafe_iex_marker), _unsafe_iex_marker) }
WrapperBlock(name) ==
    [param |-> "_unsafe_iex_marker", outer |-> "get_value_or_panic",
     outerArg |-> "_unsafe_iex_marker",
     inner |-> name, innerArg |-> "_unsafe_iex_marker"]

\* The token an argument of the wrapper's closure evaluates to
Bound(w, arg, tok) == IF arg = w.param THEN tok ELSE "none"

\* Outcome::get_value_or_panic of a Result under a token for T
GetValueOrPanic(ret, s, T) ==
    IF ret.ok
    THEN [unwinds |-> FALSE, val |-> ret.val, slot |-> s]
    ELSE [unwinds |-> TRUE, val |-> 0, slot |-> SlotWrite(s, T, ret.val)]

NoWrapper == [param |-> "none", outer |-> "none", outerArg |-> "none",
              inner |-> "none", innerArg |-> "none"]

NoExpansion ==
    [phase |-> "none", item |-> <<>>, block |-> <<>>, wrapper |-> NoWrapper,
     tok |-> "none", bodyTok |-> "none", gvTok |-> "none",
     ret |-> [ok |-> TRUE, val |-> 0],
     bodyRuns |-> 0, gvCalls |-> 0, writes |-> 0, yield |-> 0]

\* ReplaceTry.visit_block_mut(&mut closure_block)
VisitBlock ==
    /\ expansion.phase = "parsed"
    /\ expansion' = [expansion EXCEPT !.phase = "rewritten",
                                      !.block = VisitExprMut(Parse(expansion.item))]
    /\ UNCHANGED <<slot, stack, mode, flight, ev, wroteFull, started, types>>

\* The closure and the wrapper function are built around the rewritten block
EmitWrapper ==
    /\ expansion.phase = "rewritten"
    /\ expansion' = [expansion EXCEPT !.phase = "emitted",
                                      !.wrapper = WrapperBlock("name")]
    /\ UNCHANGED <<slot, stack, mode, flight, ev, wroteFull, started, types>>

\* A caller takes the value of the accessor under its token for E: the
\* closure given to IexResult::new is called with the token and calls the
\* body
CallAccessor(E) ==
    /\ expansion.phase = "emitted"
    /\ expansion' = [expansion EXCEPT
            !.phase = "called", !.tok = E,
            !.bodyTok = Bound(expansion.wrapper, expansion.wrapper.innerArg, E),
            !.bodyRuns = @ + 1]
    /\ UNCHANGED <<slot, stack, mode, flight, ev, wroteFull, started, types>>

\* The body returns a Result, having met no failure at a rewritten expr?
BodyReturns(ok, v) ==
    /\ expansion.phase = "called"
    /\ expansion' = [expansion EXCEPT !.phase = "returned",
                                      !.ret = [ok |-> ok, val |-> v]]
    /\ UNCHANGED <<slot, stack, mode, flight, ev, wroteFull, started, types>>

\* The wrapper passes what the body returned on to its caller
WrapperReturns(t) ==
    /\ expansion.phase = "returned"
    /\ t \in started
    /\ LET w == expansion.wrapper
           T == Bound(w, w.outerArg, expansion.tok)
           r == GetValueOrPanic(expansion.ret, slot[SlotOf(t)], T)
       IN  IF w.outer = "get_value_or_panic"
           THEN /\ slot' = [slot EXCEPT ![SlotOf(t)] = r.slot]
                /\ mode' = [mode EXCEPT ![t] = IF r.unwinds THEN "unwinding" ELSE @]
                /\ expansion' = [expansion EXCEPT
                        !.phase = IF r.unwinds THEN "unwound" ELSE "yielded",
                        !.gvTok = T, !.gvCalls = @ + 1,
                        !.writes = IF r.unwinds THEN @ + 1 ELSE @,
                        !.yield = r.val]
           ELSE /\ expansion' = [expansion EXCEPT !.phase = "yielded",
                                                  !.yield = expansion.ret.val]
                /\ UNCHANGED <<slot, mode>>
    /\ UNCHANGED <<stack, flight, ev, wroteFull, started, types>>

----------------------------------------------------------------------------

InitWith(S, Ts) ==
    /\ slot = [t \in Threads |-> Empty]
    /\ stack = [t \in Threads |-> <<>>]
    /\ mode = [t \in Threads |-> "idle"]
    /\ flight = [t \in Threads |-> NoFlight]
    /\ ev = [t \in Threads |-> Ev("none")]
    /\ wroteFull = FALSE
    /\ started = S
    /\ types = Ts
    /\ expansion = NoExpansion

InitThreads(S) == InitWith(S, Types)

\* One thread runs a call tree
Init == InitThreads({"t1"})

\* One thread runs a call tree over the three types of a conversion chain
InitChain == InitWith({"t1"}, ChainTypes)

\* Two threads run call trees, interleaved
InitBoth == InitThreads(Threads)

Step(t) ==
    \/ \E E \in types : IntoResult(t, E)
    \/ \E R \in types : IexForward(t, R)
    \/ ForwardDirect(t)
    \/ \E v \in OutVals : ReturnValue(t, v)
    \/ \E e \in ErrVals : Signal(t, e)
    \/ Panic(t)
    \/ Unwind(t)
    \/ DropGuard(t)
    \/ ConvReturn(t)
    \/ ConvFault(t)
    \/ Catch(t)
    \/ PassForeign(t)

Next == \E t \in Threads : Step(t)

Spec == Init /\ [][Next]_vars

SpecThreads == InitBoth /\ [][Next]_vars

SpecChain == InitChain /\ [][Next]_vars

\* The program over error types of one runtime identity, with the general
\* path open to its forwards as well as the fast path
NextEither ==
    \/ Next
    \/ \E t \in Threads, R \in types : ForwardIdentityGuard(t, R)

\* One thread runs a call tree over error types of one runtime identity
InitSame == InitWith({"t1"}, SameTypes)

SpecEither == InitSame /\ [][NextEither]_vars

\* The attribute is applied to a function whose body is any of the expressions
InitMacro ==
    /\ slot = [t \in Threads |-> Empty]
    /\ stack = [t \in Threads |-> <<>>]
    /\ mode = [t \in Threads |-> "idle"]
    /\ flight = [t \in Threads |-> NoFlight]
    /\ ev = [t \in Threads |-> Ev("none")]
    /\ wroteFull = FALSE
    /\ started = {"t1"}
    /\ types = Types
    /\ \E e \in Exprs : expansion = [NoExpansion EXCEPT !.phase = "parsed", !.item = e]

NextMacro ==
    \/ VisitBlock
    \/ EmitWrapper
    \/ \E E \in types : CallAccessor(E)
    \/ \E ok \in BOOLEAN, v \in OutVals : BodyReturns(ok, v)
    \/ \E t \in Threads : WrapperReturns(t)

SpecMacro == InitMacro /\ [][NextMacro]_vars

----------------------------------------------------------------------------
(* Helpers of the properties *)

RECURSIVE ConvChain(_, _)
\* The value v after the conversions of the guards crossed, innermost first
ConvChain(v, crossed) ==
    IF crossed = <<>> THEN v
    ELSE ConvChain(IntoVal(crossed[1][1], crossed[1][2], v), Tail(crossed))

\* The frames of thread t that can claim a failure: guards and boundaries
Claimers(t) == {i \in 1..Len(stack[t]) : stack[t][i].kind \in {"guard", "boundary"}}

\* The innermost of them
Nearest(t) == CHOOSE i \in Claimers(t) : \A j \in Claimers(t) : j <= i

\* Thread t took no step
Still(t) == stack'[t] = stack[t] /\ mode'[t] = mode[t]

\* Thread t returned a value out of its innermost frame
Returned(t) == mode[t] = "running" /\ Len(stack'[t]) = Len(stack[t]) - 1

----------------------------------------------------------------------------
(* C1: a failure forwarded on the general path (error types of different   *)
(* runtime identity) has each guard it crosses call its conversion exactly *)
(* once, and the boundary reconstructs the converted value, never the      *)
(* value that was signalled.                                               *)
C1_ConvertedOnce ==
    \A t \in Threads :
        /\ ev[t].op = "converted" => ev[t].calls = 1
        /\ (ev[t].op = "catch" /\ flight[t].crossed # <<>>) =>
                /\ flight[t].convs = Len(flight[t].crossed)
                /\ ev[t].val = ConvChain(flight[t].val, flight[t].crossed)
                /\ TypeId(ev[t].ty) = TypeId(flight[t].crossed[Len(flight[t].crossed)][2])
                /\ <<TypeId(ev[t].ty), ev[t].val>> # <<TypeId(flight[t].ty), flight[t].val>>

C1_Witness ==
    \E t \in Threads :
        /\ ev[t].op = "catch"
        /\ flight[t].crossed = << <<"A", "B">> >>
        /\ flight[t].ty = "A"
        /\ ev[t].ty = "B"
        /\ ev[t].val = IntoVal("A", "B", flight[t].val)

(* C2: with no guard in between, the boundary reads from the slot exactly  *)
(* the value that was signalled, under the originating type; the slot      *)
(* holds it from the moment the unwind starts; and while the failure       *)
(* unwinds no further call is made.                                        *)
C2_RoundTripState ==
    \A t \in Threads :
        /\ ev[t].op = "signal" =>
                SlotRead(slot[t], flight[t].ty) =
                    [got |-> TRUE, val |-> flight[t].val, slot |-> Empty]
        /\ (mode[t] = "unwinding" /\ flight[t].crossed = <<>> /\ stack[t] # <<>>
                /\ Top(t).kind = "boundary") =>
                /\ SlotRead(slot[t], Top(t).from).got
                /\ SlotRead(slot[t], Top(t).from).val = flight[t].val
        /\ (ev[t].op = "catch" /\ flight[t].crossed = <<>>) =>
                /\ ev[t].val = flight[t].val
                /\ TypeId(ev[t].ty) = TypeId(flight[t].ty)

\* C2: the round trip holds in every state, and an unwinding thread makes no call
C2_RoundTrip ==
    [][ /\ C2_RoundTripState
        /\ C2_RoundTripState'
        /\ \A t \in Threads :
             mode[t] = "unwinding" =>
                /\ Len(stack'[t]) <= Len(stack[t])
                /\ ev'[t].op \notin {"forward", "direct", "enter", "return", "swallow", "ok"}
      ]_vars

C2_Witness ==
    \E t \in Threads :
        /\ ev[t].op = "catch"
        /\ flight[t].crossed = <<>>
        /\ flight[t].depth = 3
        /\ stack[t] = <<>>
        /\ ev[t].val = flight[t].val

(* C3: a successful computation hands its value back by the ordinary       *)
(* return path: the step writes nothing to the slot, starts no unwind, and *)
(* the slot is empty before and after it.                                  *)
C3_SuccessLeavesSlot ==
    [][ \A t \in Threads :
            Returned(t) =>
                /\ slot[t] = Empty
                /\ slot'[t] = Empty
                /\ mode'[t] \in {"running", "idle", "converting"}
                /\ ev'[t].op \in {"return", "swallow", "ok"}
                /\ ev'[t].val \in OutVals
                /\ wroteFull' = wroteFull
      ]_vars

C3_Witness ==
    \E t \in Threads :
        /\ ev[t].op = "swallow"
        /\ slot[t] = Empty
        /\ mode[t] = "running"

(* C4: between error types of one runtime identity, forwarding installs no *)
(* guard and calls no conversion, on success and on failure; the failure   *)
(* reaches the boundary as signalled.                                      *)
C4_FastPathNoGuard ==
    \A t \in Threads :
        /\ \A i \in 1..Len(stack[t]) :
              TypeId(stack[t][i].tok) = TypeId(stack[t][i].out) =>
                  /\ stack[t][i].kind # "guard"
                  /\ stack[t][i].calls = 0
        /\ (ev[t].op \in {"swallow", "skip", "converted"}) =>
                TypeId(ev[t].ty) # TypeId(ev[t].out)
        /\ (ev[t].op = "catch" /\ flight[t].crossed = <<>>) => ev[t].val = flight[t].val

C4_Witness ==
    \E t \in Threads :
        /\ mode[t] = "unwinding"
        /\ Len(stack[t]) = 2
        /\ stack[t][2].kind = "fast"
        /\ stack[t][2].tok = "Ap"
        /\ stack[t][2].out = "A"
        /\ flight[t].ty = "Ap"

(* C5: a guard whose protected computation succeeds never calls its        *)
(* conversion, and on the swallow path and on the fire path a guard        *)
(* releases its state and its conversion function exactly once.            *)
C5_ReleasedOnce ==
    \A t \in Threads :
        /\ ev[t].op = "swallow" =>
                ev[t].calls = 0 /\ ev[t].sRel = 1 /\ ev[t].fRel = 1
        /\ ev[t].op = "converted" =>
                ev[t].calls = 1 /\ ev[t].sRel = 1 /\ ev[t].fRel = 1

\* A guard swallowed inside the conversion of a guard that is firing
C5_Witness ==
    \E t \in Threads :
        /\ Len(stack[t]) = 3
        /\ stack[t][2].phase = "converting"
        /\ stack[t][2].sRel = 1
        /\ stack[t][2].fRel = 1
        /\ ev[t].op = "swallow"
        /\ ev[t].sRel = 1
        /\ ev[t].fRel = 1

(* C6: a guard an unwind passes while the slot holds no payload of the     *)
(* guard's input type leaves the slot as it is, calls no conversion, and   *)
(* still releases its state and its conversion function exactly once.      *)
C6_SkipReleases ==
    \A t \in Threads :
        ev[t].op = "skip" =>
            ev[t].calls = 0 /\ ev[t].sRel = 1 /\ ev[t].fRel = 1

\* What Drop does on that path (C6): the slot and the conversion are left
\* alone, and neither the state nor the function is released
C6_SkipLeaks ==
    [][ \A t \in Threads :
            (ev'[t].op = "skip" /\ ~Still(t)) =>
                /\ slot' = slot
                /\ ev'[t].calls = 0 /\ ev'[t].sRel = 0 /\ ev'[t].fRel = 0
      ]_vars

(* C7: the slot of a thread is empty when a top-level boundary is entered  *)
(* and when it returns, with a value or with a reconstructed failure,      *)
(* whatever guards the failure crossed.                                    *)
C7_BoundarySlotEmpty ==
    \A t \in Threads :
        ev[t].op \in {"enter", "ok", "catch"} => slot[t] = Empty

C7_Witness ==
    \E t \in Threads :
        /\ ev[t].op = "catch"
        /\ Len(flight[t].crossed) = 2
        /\ slot[t] = Empty

(* C8: a slot holds at most one payload, which is the one failure in       *)
(* flight on its thread, and every write to a slot finds it empty.         *)
C8_WriteFindsEmpty ==
    /\ ~wroteFull
    /\ \A t \in Threads :
          /\ slot[t] # Empty <=> mode[t] = "unwinding"
          /\ slot[t] # Empty => slot[t].tag \in {TypeId(T) : T \in types}

C8_Witness ==
    \E t \in Threads :
        /\ ev[t].op = "converted"
        /\ mode[t] = "unwinding"
        /\ flight[t].ty = "A"
        /\ slot[t] = [tag |-> "B", val |-> IntoVal("A", "B", flight[t].val)]

(* C9: each thread has a slot of its own: no step of one thread changes    *)
(* the slot of another, and each thread's boundary observes the failure    *)
(* its own thread signalled, as its own guards converted it.               *)
C9_OwnFailure ==
    \A t \in Threads :
        ev[t].op = "catch" => ev[t].val = ConvChain(flight[t].val, flight[t].crossed)

\* C9: a thread that takes no step keeps its slot, and catches its own failure
C9_ThreadConfined ==
    [][ /\ \A t \in Threads : Still(t) => slot'[t] = slot[t]
        /\ C9_OwnFailure
        /\ C9_OwnFailure'
      ]_vars

C9_Witness ==
    /\ mode["t1"] = "unwinding"
    /\ mode["t2"] = "unwinding"
    /\ slot["t1"] # slot["t2"]
    /\ slot["t1"].tag = slot["t2"].tag

C11_OneTerminalState ==
    \A t \in Threads :
        ev[t].op \in {"swallow", "converted", "skip"} =>
            /\ ev[t].paths = 1
            /\ ev[t].sRel = 1
            /\ ev[t].fRel = 1
            /\ \/ ev[t].op = "swallow" /\ ev[t].calls = 0
               \/ ev[t].op = "converted" /\ ev[t].calls = 1

\* What holds: a guard is destroyed along exactly one of swallow and its
\* destructor.  A swallowed guard is forgotten, so it never reads or writes
\* the slot or converts afterwards; a guard whose destructor ran was not
\* swallowed; and every guard still in the call tree is armed, or is the one
\* that is converting.
C11_OneTerminalPath ==
    \A t \in Threads :
        /\ ev[t].op \in {"swallow", "converted", "skip"} => ev[t].paths = 1
        /\ ev[t].op = "swallow" => ev[t].calls = 0
        /\ ev[t].op = "converted" => ev[t].calls = 1
        /\ \A i \in 1..Len(stack[t]) :
              stack[t][i].kind = "guard" =>
                  /\ stack[t][i].phase \in {"live", "converting"}
                  /\ ~stack[t][i].forgotten
                  /\ stack[t][i].phase = "live" =>
                        stack[t][i].calls = 0 /\ stack[t][i].sRel = 0
                  /\ stack[t][i].phase = "converting" =>
                        /\ stack[t][i].calls = 1
                        /\ (i = Len(stack[t]) \/ stack[t][i + 1].kind = "boundary")

\* A guard swallowed, and below it in the call tree a guard that has fired
C11_SwallowedInsideFired ==
    \E t \in Threads :
        /\ ev[t].op = "swallow"
        /\ ev[t].paths = 1
        /\ Len(stack[t]) = 3
        /\ stack[t][2].kind = "guard"
        /\ stack[t][2].phase = "converting"
        /\ stack[t][3].kind = "boundary"

(* C12: nested guards fire innermost first.  A guard that fires reads the  *)
(* value the guards inside it have produced, under the type the last of    *)
(* them wrote; a conversion that returns leaves its result in the slot     *)
(* under its target type before any enclosing guard reads; and a failure   *)
(* that crossed an inner guard R -> M and an outer guard M -> E was        *)
(* converted once by each, so that the boundary reads conv(M,E) of         *)
(* conv(R,M) of the signalled value, under E.                              *)
C12_NestedLifo ==
    \A t \in Threads :
        /\ ev[t].op = "fire" =>
              LET g == Top(t)
                  c == g.saved.crossed
              IN  /\ g.held = ConvChain(g.saved.val, c)
                  /\ g.saved.convs = Len(c) + 1
                  /\ TypeId(g.from) =
                        IF c = <<>> THEN TypeId(g.saved.ty) ELSE TypeId(c[Len(c)][2])
        /\ ev[t].op = "converted" =>
              /\ slot[SlotOf(t)] = [tag |-> TypeId(ev[t].out), val |-> ev[t].val]
              /\ flight[t].crossed[Len(flight[t].crossed)] = <<ev[t].ty, ev[t].out>>
        /\ (ev[t].op = "catch" /\ Len(flight[t].crossed) = 2) =>
              LET c == flight[t].crossed
              IN  /\ TypeId(c[1][1]) = TypeId(flight[t].ty)
                  /\ TypeId(c[1][2]) = TypeId(c[2][1])
                  /\ flight[t].convs = 2
                  /\ TypeId(ev[t].ty) = TypeId(c[2][2])
                  /\ ev[t].val = IntoVal(c[2][1], c[2][2],
                                         IntoVal(c[1][1], c[1][2], flight[t].val))

\* A failure of type A crossed the guards A -> B and B -> C and is caught as C
C12_Witness ==
    \E t \in Threads :
        /\ ev[t].op = "catch"
        /\ flight[t].crossed = << <<"A", "B">>, <<"B", "C">> >>
        /\ flight[t].val = 1
        /\ ev[t].ty = "C"
        /\ ev[t].val = IntoVal("B", "C", IntoVal("A", "B", 1))

(* C13: a guard that fires has emptied the slot before its conversion is   *)
(* called and writes it only after the conversion has returned.  The slot  *)
(* is empty whenever a conversion runs, no write finds the slot occupied,  *)
(* a protocol cycle nested in the conversion leaves the firing guard as it *)
(* was, and the write that follows puts the conversion of the value the    *)
(* guard took, under the guard's target type, into the empty slot.         *)
C13_State ==
    /\ ~wroteFull
    /\ \A t \in Threads :
          /\ mode[t] = "converting" => slot[SlotOf(t)] = Empty
          /\ ev[t].op = "fire" =>
                /\ mode[t] = "converting"
                /\ Top(t).held = ev[t].val
                /\ Top(t).calls = 1

C13_Step ==
    \A t \in Threads :
        /\ \A i \in 1..Len(stack[t]) :
              (stack[t][i].phase = "converting" /\ Len(stack'[t]) >= i) =>
                  stack'[t][i] = stack[t][i]
        /\ (mode[t] = "converting" /\ mode'[t] = "unwinding") =>
              /\ slot[SlotOf(t)] = Empty
              /\ slot'[SlotOf(t)] =
                    [tag |-> TypeId(Top(t).out),
                     val |-> IntoVal(Top(t).from, Top(t).out, Top(t).held)]
              /\ flight'[t].val = Top(t).saved.val

C13_EmptyAcrossConversion == []C13_State /\ [][C13_Step]_vars

\* A protocol cycle nested in a conversion has been caught by its own
\* boundary, and the firing guard still holds the value it took
C13_Witness ==
    \E t \in Threads :
        /\ ev[t].op = "catch"
        /\ mode[t] = "converting"
        /\ slot[SlotOf(t)] = Empty
        /\ Top(t).kind = "guard"
        /\ Top(t).held = 1
        /\ Top(t).saved.ty = "A"

(* C14: a conversion that faults while its guard fires ends the execution. *)
(* After the fault no step is taken, so no boundary and no enclosing guard *)
(* observes a payload; and the slot is empty at the abort: it holds        *)
(* neither the payload the guard took, nor a converted one.                *)
C14_State ==
    \A t \in Threads :
        mode[t] = "aborted" =>
            /\ ev[t].op \in {"abort", "pass"}
            /\ \A u \in Threads : slot[u] = Empty

C14_Step ==
    /\ ~Aborted
    /\ \A t \in Threads :
          (mode[t] = "converting" /\ mode'[t] \notin {"converting", "running", "unwinding"}) =>
              /\ mode'[t] = "aborted"
              /\ stack'[t] = stack[t]
              /\ slot' = slot

C14_FaultAborts == []C14_State /\ [][C14_Step]_vars

\* A conversion faulted under an enclosing armed guard, with the value it
\* took still held
C14_Witness ==
    \E t \in Threads :
        /\ mode[t] = "aborted"
        /\ ev[t].op = "abort"
        /\ Len(stack[t]) = 3
        /\ Top(t).phase = "converting"
        /\ Top(t).held = 1
        /\ stack[t][2].kind = "guard"
        /\ stack[t][2].phase = "live"
        /\ slot[SlotOf(t)] = Empty

\* The operands of expression e that are not inside a closure or a nested
\* fn item
Visible(e) ==
    {i \in 1..Len(e) : \A j \in 1..(i - 1) : e[j] \notin {"closure", "fnitem"}}

\* The rewriting replaces expr? wherever it is visible, by the call named
\* call, and leaves every other expression as it is
RewrittenTo(call) ==
    expansion.phase \notin {"none", "parsed"} =>
        /\ Len(expansion.block) = Len(expansion.item)
        /\ \A i \in 1..Len(expansion.item) :
              expansion.block[i] =
                  IF i \in Visible(expansion.item) /\ expansion.item[i] = "try"
                  THEN call
                  ELSE Node(expansion.item[i])

(* C15: the rewriting replaces every expr? of the body, one nested in the  *)
(* operand of another included, by a call of the forwarding bridge         *)
(* (_iex_forward) with the token of the scope, and leaves every expr?      *)
(* inside a nested closure or a nested fn item as it is.                   *)
C15_RewritesToForward == RewrittenTo(ForwardCall)

\* What the rewriting does: every expr? outside closures and nested fn items
\* becomes a call of get_value_or_panic with the token of the scope
C15_RewritesToGetValue == RewrittenTo(TryCall)

\* An expr? in the operand of an expr? is rewritten, one in a closure is not
C15_Rewritten ==
    /\ expansion.phase = "rewritten"
    /\ expansion.item = <<"try", "try", "closure">>
    /\ expansion.block = <<TryCall, TryCall, Node("closure")>>

(* C16: the accessor generated for an annotated function runs the body     *)
(* once under the caller's token and passes what the body returned through *)
(* one get_value_or_panic under the same token: Ok(v) yields v and writes  *)
(* nothing to the slot; Err(e) writes e under the function's error type    *)
(* and unwinds.                                                            *)
C16_AccessorPassesThrough ==
    expansion.phase \in {"yielded", "unwound"} =>
        /\ expansion.bodyRuns = 1
        /\ expansion.gvCalls = 1
        /\ expansion.bodyTok = expansion.tok
        /\ expansion.gvTok = expansion.tok
        /\ expansion.ret.ok =>
              /\ expansion.phase = "yielded"
              /\ expansion.yield = expansion.ret.val
              /\ expansion.writes = 0
              /\ slot["t1"] = Empty
              /\ mode["t1"] = "idle"
        /\ ~expansion.ret.ok =>
              /\ expansion.phase = "unwound"
              /\ expansion.writes = 1
              /\ slot["t1"] = [tag |-> TypeId(expansion.tok), val |-> expansion.ret.val]
              /\ mode["t1"] = "unwinding"

\* A body with no expr? returned Err(1), under a caller's token for B
C16_Witness ==
    /\ expansion.phase = "unwound"
    /\ expansion.item = <<>>
    /\ expansion.tok = "B"
    /\ expansion.ret = [ok |-> FALSE, val |-> 1]
    /\ slot["t1"] = [tag |-> "B", val |-> 1]

(* C17: the slot of a thread is non-empty only while an unwind that the    *)
(* protocol started is in flight on the thread.  So a guard's destructor,  *)
(* which reads the slot whatever the thread is doing, fires only in an     *)
(* unwind whose payload has the guard's expected type, and in every other  *)
(* destruction of a guard the slot is left as it was and the conversion    *)
(* is not called.                                                          *)
C17_State ==
    \A t \in Threads :
        /\ slot[SlotOf(t)] # Empty => mode[t] = "unwinding"
        /\ ev[t].op = "fire" => Top(t).saved.ty # "none"

C17_Step ==
    \A t \in Threads :
        (/\ stack[t] # <<>>
         /\ Top(t).kind = "guard"
         /\ Top(t).phase = "live"
         /\ \/ Len(stack'[t]) < Len(stack[t])
            \/ stack'[t][Len(stack[t])].phase # "live") =>
            IF mode[t] = "unwinding" /\ slot[SlotOf(t)].tag = TypeId(Top(t).from)
            THEN /\ ev'[t].op = "fire"
                 /\ ev'[t].val = slot[SlotOf(t)].val
                 /\ slot'[SlotOf(t)] = Empty
                 /\ mode'[t] = "converting"
            ELSE /\ ev'[t].op \in {"skip", "swallow"}
                 /\ ev'[t].calls = 0
                 /\ slot' = slot
                 /\ ev'[t].op = "skip" => mode[t] = "foreign" /\ mode'[t] = "foreign"

C17_FiresOnlyInUnwind == []C17_State /\ [][C17_Step]_vars

\* A guard was destroyed by an unwind the protocol did not start: the slot
\* was empty and stays empty
C17_Witness ==
    \E t \in Threads :
        /\ ev[t].op = "skip"
        /\ ev[t].ty = "B"
        /\ ev[t].calls = 0
        /\ mode[t] = "foreign"
        /\ slot[SlotOf(t)] = Empty

RECURSIVE Converting(_)
\* The guards crossed that convert between two runtime identities
Converting(crossed) ==
    IF crossed = <<>> THEN <<>>
    ELSE IF TypeId(crossed[1][1]) = TypeId(crossed[1][2])
         THEN Converting(Tail(crossed))
         ELSE <<crossed[1]>> \o Converting(Tail(crossed))

\* What the slot holds after a failure has crossed the frames of crossed,
\* when every forward between types of one identity took the fast path
FastPathSlot(fl) ==
    LET c == Converting(fl.crossed)
    IN  [tag |-> IF c = <<>> THEN TypeId(fl.ty) ELSE TypeId(c[Len(c)][2]),
         val |-> ConvChain(fl.val, c)]

\* Frame g forwards between error types of one runtime identity
SameIdentity(g) ==
    /\ g.kind \in {"fast", "guard"}
    /\ TypeId(g.from) = TypeId(g.out)

(* C18: between error types of one runtime identity, the pass-through      *)
(* branch of _iex_forward and a guard with the identity conversion cannot  *)
(* be told apart.  On success either returns the inner Output and leaves   *)
(* the slot empty; on failure the slot holds after either, and the         *)
(* boundary reads, the tag and payload that the fast path alone would have *)
(* carried, and the slot is empty after the boundary.                      *)
C18_State ==
    \A t \in Threads :
        /\ (ev[t].op = "converted" /\ TypeId(ev[t].ty) = TypeId(ev[t].out)) =>
              slot[SlotOf(t)] = FastPathSlot(flight[t])
        /\ (mode[t] = "unwinding" /\ stack[t] # <<>>) =>
              slot[SlotOf(t)] = FastPathSlot(flight[t])
        /\ ev[t].op = "catch" =>
              /\ [tag |-> TypeId(ev[t].ty), val |-> ev[t].val] = FastPathSlot(flight[t])
              /\ slot[SlotOf(t)] = Empty

C18_Step ==
    \A t \in Threads :
        (stack[t] # <<>> /\ SameIdentity(Top(t)) /\ Returned(t)) =>
            /\ ev'[t].op = IF Top(t).kind = "guard" THEN "swallow" ELSE "return"
            /\ ev'[t].val \in OutVals
            /\ ev'[t].calls = 0
            /\ slot[SlotOf(t)] = Empty
            /\ slot' = slot
            /\ stack'[t] = Pop(t)
            /\ mode'[t] = "running"

C18_FastPathEquivalent == []C18_State /\ [][C18_Step]_vars

\* A failure signalled as Ap crossed a guard Ap -> A with the identity
\* conversion and was caught as A with the payload signalled
C18_Witness ==
    \E t \in Threads :
        /\ ev[t].op = "catch"
        /\ flight[t].crossed = << <<"Ap", "A">> >>
        /\ flight[t].val = 1
        /\ ev[t].ty = "A"
        /\ ev[t].val = 1
====
